---- MODULE Spec2Model ----
(***************************************************************************)
(* Model of the momentum_bot trading strategies:                           *)
(*   src/strategies/sma_momentum.py    (SMAMomentumBot)                     *)
(*   src/strategies/simple_momentum.py (SimpleMomentumBot)                  *)
(*                                                                         *)
(* Units.  Risk fractions are in thousandths (0.03 = 30), risk and ATR      *)
(* multipliers in tenths (5.0 = 50, 1.5 = 15), equity and cash in thousands *)
(* of dollars.  Floating point values are records [k, n, d]: a finite value *)
(* n/d, NaN, +inf or -inf, or None; arithmetic is exact (the rounding of    *)
(* IEEE doubles is not modelled).                                           *)
(*                                                                         *)
(* The data and broker collaborators (get_historical_prices,                *)
(* get_last_price, get_position, cash, portfolio_value) are the variables   *)
(* spy, sym, cash and portfolio_value: what they would answer if asked now. *)
(***************************************************************************)
EXTENDS Integers, Sequences, FiniteSets, TLC

VARIABLES
    universe,          \* SMAMomentumBot.universe (list of symbols)
    risk_per_trade,    \* SMAMomentumBot.risk_per_trade, in thousandths
    market_condition,  \* SMAMomentumBot.market_condition
    portfolio_peak,    \* SMAMomentumBot.portfolio_peak
    portfolio_value,   \* broker: account equity
    cash,              \* broker: available cash
    spy,               \* data: the benchmark's (SPY) bars, summarised
    sym,               \* data and broker: per symbol bars, last price, position
    last,              \* record of the last handler run (orders, steps, ...)
    probe,             \* a single call of one method: its arguments and result
    simple,            \* the fields of a SimpleMomentumBot
    halted_once        \* history: some trading cycle so far was halted by the
                       \* drawdown gate

vars == <<universe, risk_per_trade, market_condition, portfolio_peak,
          portfolio_value, cash, spy, sym, last, probe, simple,
          halted_once>>

botVars == <<universe, risk_per_trade, market_condition, portfolio_peak>>
envVars == <<portfolio_value, cash, spy, sym>>

----------------------------------------------------------------------------
(* Floating point values *)

F(x) == [k |-> "fin", n |-> x, d |-> 1]
Frac(x, y) == [k |-> "fin", n |-> x, d |-> y]
NaN == [k |-> "nan", n |-> 0, d |-> 1]
PosInf == [k |-> "inf", n |-> 0, d |-> 1]
NegInf == [k |-> "ninf", n |-> 0, d |-> 1]
None == [k |-> "none", n |-> 0, d |-> 1]

IsFinite(a) == a.k = "fin"
IsNaN(a) == a.k = "nan"

\* a < b on floats: every comparison with NaN is false
Lt(a, b) ==
    CASE a.k = "nan" \/ b.k = "nan" -> FALSE
      [] a.k = "ninf" -> b.k # "ninf"
      [] a.k = "inf" -> FALSE
      [] b.k = "ninf" -> FALSE
      [] b.k = "inf" -> TRUE
      [] OTHER -> a.n * b.d < b.n * a.d

Gt(a, b) == Lt(b, a)
Le(a, b) == a.k # "nan" /\ b.k # "nan" /\ ~Lt(b, a)

\* numpy float64 division x / y of two finite integers: no exception on y = 0
NpDiv(x, y) ==
    IF y > 0 THEN Frac(x, y)
    ELSE IF y < 0 THEN Frac(-x, -y)
    ELSE IF x > 0 THEN PosInf
    ELSE IF x < 0 THEN NegInf
    ELSE NaN

Min(a, b) == IF a <= b THEN a ELSE b
Max(a, b) == IF a >= b THEN a ELSE b

Reverse(s) == [i \in 1..Len(s) |-> s[Len(s) + 1 - i]]

RECURSIVE SeqSum(_)
SeqSum(s) == IF s = <<>> THEN 0 ELSE Head(s) + SeqSum(Tail(s))

----------------------------------------------------------------------------
(* sorted(scores, key=scores.get, reverse=True): CPython's list sort for    *)
(* fewer than 64 items is count_run followed by a binary insertion sort;    *)
(* reverse=True reverses the list before and after.  key is a function      *)
(* from item to float; ISLT is the float <.                                 *)

\* length of the run at the start of s, and whether it is strictly descending
RECURSIVE RunEnd(_, _, _, _)
RunEnd(s, key, i, desc) ==
    IF i > Len(s) THEN i - 1
    ELSE IF Lt(key[s[i]], key[s[i - 1]]) = desc THEN RunEnd(s, key, i + 1, desc)
    ELSE i - 1

count_run(s, key) ==
    IF Len(s) < 2 THEN [n |-> Len(s), descending |-> FALSE]
    ELSE LET desc == Lt(key[s[2]], key[s[1]])
         IN  [n |-> RunEnd(s, key, 3, desc), descending |-> desc]

\* the slot binarysort finds for pivot in the sorted prefix s[1..r-1]
RECURSIVE BinarySlot(_, _, _, _, _)
BinarySlot(s, key, pivot, l, r) ==
    IF l >= r THEN l
    ELSE LET p == l + ((r - l) \div 2)
         IN  IF Lt(key[pivot], key[s[p]])
             THEN BinarySlot(s, key, pivot, l, p)
             ELSE BinarySlot(s, key, pivot, p + 1, r)

RECURSIVE binarysort(_, _, _)
binarysort(s, key, start) ==
    IF start > Len(s) THEN s
    ELSE LET pivot == s[start]
             l == BinarySlot(s, key, pivot, 1, start)
             moved == [i \in 1..Len(s) |->
                          IF i < l \/ i > start THEN s[i]
                          ELSE IF i = l THEN pivot
                          ELSE s[i - 1]]
         IN  binarysort(moved, key, start + 1)

listsort(s, key) ==
    IF Len(s) < 2 THEN s
    ELSE LET run == count_run(s, key)
             fixed == IF run.descending
                      THEN Reverse(SubSeq(s, 1, run.n)) \o SubSeq(s, run.n + 1, Len(s))
                      ELSE s
         IN  binarysort(fixed, key, run.n + 1)

sorted_reverse(s, key) == Reverse(listsort(Reverse(s), key))

----------------------------------------------------------------------------
(* Data collaborator.  A symbol's bars are summarised by what the strategies *)
(* read from them:                                                          *)
(*   hist  "ok" | "none" | "raise": get_historical_prices returns bars,     *)
(*         returns None, or raises                                          *)
(*   bars  number of rows of bars.df (0: empty)                             *)
(*   slope per-bar slope of the closes, taken linear: it decides the        *)
(*         rolling means                                                    *)
(*   adx   last ADX value                                                   *)
(*   mom   momentum last/first - 1 (in percent)                             *)
(*   vol   last rolling(20) standard deviation of the closes                *)
(*   atr   last ATR value                                                   *)
(*   price get_last_price;  qty  get_position(...).quantity (0: none)       *)

\* df["close"].rolling(p).mean().iloc[-1] of closes ending at 100 with the
\* given per-bar slope: 100 - slope * (p - 1) / 2, NaN with fewer than p rows
RollingMean(d, p) ==
    IF d.bars < p THEN NaN ELSE Frac(200 - d.slope * (p - 1), 2)

\* df["close"].rolling(20).std().iloc[-1]
RollingStd20(d) == IF d.bars < 20 THEN NaN ELSE F(d.vol)

\* momentum / volatility on numpy floats
Score(d) ==
    LET v == RollingStd20(d)
    IN  IF IsNaN(v) THEN NaN ELSE NpDiv(d.mom, v.n)

----------------------------------------------------------------------------
(* SMAMomentumBot *)

base_risk_per_trade == 30

risk_multipliers(mc) ==
    CASE mc = "Bull" -> 50
      [] mc = "Bear" -> 5
      [] mc = "Flat" -> 10
      [] OTHER -> 10

\* get_historical_prices, as the three things its callers tell apart
get_historical_prices(d) ==
    IF d.hist = "raise" THEN "raise"
    ELSE IF d.hist = "none" \/ d.bars = 0 THEN "empty"
    ELSE "bars"

\* a validation that asks for the 200 bars of the long average
get_valid_data_Needs200(d) ==
    IF d.hist = "raise" THEN "raise"
    ELSE IF d.hist = "none" \/ d.bars = 0 \/ d.bars < 200 THEN "None"
    ELSE "df"

\* get_valid_data: "raise", "None" or "df"
get_valid_data(d) ==
    IF d.hist = "raise" THEN "raise"
    ELSE IF d.hist = "none" \/ d.bars = 0 \/ d.bars < 50 THEN "None"
    ELSE "df"

\* the running state of one handler call: the bot's fields and what the call
\* has done so far
Start(u, r, mc, pk) ==
    [universe |-> u, risk_per_trade |-> r, market_condition |-> mc,
     portfolio_peak |-> pk, orders |-> <<>>, steps |-> <<>>,
     risk_writes |-> 0, peak_writes |-> 0, visited |-> 0, raised |-> FALSE]

Step(m, name) == [m EXCEPT !.steps = Append(@, name)]
Raise(m) == [m EXCEPT !.raised = TRUE]

\* a regime adjustment that scales the current risk fraction
adjust_risk_based_on_market_Compounds(m) ==
    [m EXCEPT !.risk_per_trade =
                  (m.risk_per_trade * risk_multipliers(m.market_condition)) \div 10,
              !.risk_writes = @ + 1]

adjust_risk_based_on_market(m) ==
    [m EXCEPT !.risk_per_trade =
                  (base_risk_per_trade * risk_multipliers(m.market_condition)) \div 10,
              !.risk_writes = @ + 1]

\* the regime computed from a valid SPY frame
Regime(s) ==
    LET spy_sma_50 == IF s.bars < 50 THEN NaN ELSE F(s.sma_50)
        spy_sma_200 == IF s.bars < 200 THEN NaN ELSE F(s.sma_200)
        weighted_slope == IF s.bars < 55 THEN NaN ELSE Frac(s.slope, 100)
        volatility == IF s.bars < 20 THEN NaN ELSE Frac(s.vol, 10)
        slope_threshold == IF Gt(volatility, Frac(15, 10)) THEN 5 ELSE 10
    IN  IF Gt(weighted_slope, Frac(slope_threshold, 100)) /\ Gt(spy_sma_50, spy_sma_200)
        THEN "Bull"
        ELSE IF Lt(weighted_slope, Frac(-slope_threshold, 100)) /\ Lt(spy_sma_50, spy_sma_200)
        THEN "Bear"
        ELSE "Flat"

detect_market_condition(m0, s) ==
    LET m == Step(m0, "regime")
        spy_data == get_valid_data(s)
    IN  IF spy_data = "raise" THEN Raise(m)
        ELSE IF spy_data = "None" THEN [m EXCEPT !.market_condition = "Neutral"]
        ELSE adjust_risk_based_on_market([m EXCEPT !.market_condition = Regime(s)])

\* "raise", TRUE or FALSE
detect_high_volatility(s) ==
    LET spy_data == get_historical_prices(s)
        atr == IF s.bars < 14 THEN NaN ELSE F(s.atr)
        volatility_threshold == Frac(s.mean * 5, 100)
    IN  IF spy_data = "raise" THEN "raise"
        ELSE IF spy_data = "empty" THEN "FALSE"
        ELSE IF Gt(atr, volatility_threshold) THEN "TRUE" ELSE "FALSE"

adjust_for_volatility(m0, s) ==
    LET m == Step(m0, "risk")
        high == detect_high_volatility(s)
    IN  IF high = "raise" THEN Raise(m)
        ELSE IF high = "TRUE"
        THEN [m EXCEPT !.risk_per_trade = (base_risk_per_trade * 5) \div 10,
                       !.risk_writes = @ + 1]
        ELSE [m EXCEPT !.risk_per_trade = base_risk_per_trade,
                       !.risk_writes = @ + 1]

\* a filter that starts from the configured list instead of self.universe
filter_universe_FromInitial(m0, data) ==
    LET m == Step(m0, "filter")
        Valid(stock) == get_valid_data(data[stock]) = "df"
        configured == SelectSeq(<<"VOO", "QQQ", "GLD">>, LAMBDA x : x \in DOMAIN data)
    IN  IF \E i \in 1..Len(m.universe) : get_valid_data(data[m.universe[i]]) = "raise"
        THEN Raise(m)
        ELSE [m EXCEPT !.universe = SelectSeq(configured, Valid)]

filter_universe(m0, data) ==
    LET m == Step(m0, "filter")
        Valid(stock) == get_valid_data(data[stock]) = "df"
    IN  IF \E i \in 1..Len(m.universe) : get_valid_data(data[m.universe[i]]) = "raise"
        THEN Raise(m)
        ELSE [m EXCEPT !.universe = SelectSeq(m.universe, Valid)]

\* the possible results of calculate_drawdown for equity pv: the peak is
\* written first; with a peak of 0 the division raises ZeroDivisionError on a
\* Python float and gives nan or -inf on a numpy float64
\* a drawdown against the equity itself: the peak is never stored
calculate_drawdown_NoPeak(m0, pv) ==
    LET m == Step(m0, "drawdown")
    IN  IF pv # 0
        THEN {[m |-> m, drawdown |-> Frac((pv - pv) * 100, pv)]}
        ELSE {[m |-> Raise(m), drawdown |-> None],
              [m |-> m, drawdown |-> NpDiv(0, 0)]}

calculate_drawdown(m0, pv) ==
    LET peak == Max(m0.portfolio_peak, pv)
        m == [Step(m0, "drawdown") EXCEPT !.portfolio_peak = peak,
                                          !.peak_writes = @ + 1]
    IN  IF peak # 0
        THEN {[m |-> m, drawdown |-> Frac((pv - peak) * 100, peak)]}
        ELSE {[m |-> Raise(m), drawdown |-> None],
              [m |-> m, drawdown |-> NpDiv((pv - peak) * 100, 0)]}

\* rank_assets: a fetch that raises is caught and the symbol left out
rank_assets(u, data) ==
    LET Scored(stock) == get_valid_data(data[stock]) = "df"
        scores == [stock \in DOMAIN data |-> Score(data[stock])]
    IN  sorted_reverse(SelectSeq(u, Scored), scores)

RECURSIVE GCD(_, _)
GCD(a, b) == IF b = 0 THEN a ELSE GCD(b, a % b)

Abs(x) == IF x < 0 THEN -x ELSE x

\* int(a / (b * sqrt(c))) for integers a, b # 0 and c > 0: truncation towards 0
TruncDivRoot(a, b, c) ==
    IF a = 0 THEN 0
    ELSE LET g == GCD(Abs(a), Abs(b))
             x == Abs(a) \div g
             y == Abs(b) \div g
             k == CHOOSE j \in 0..(x \div y) :
                      /\ (j * y) * (j * y) <= (x * x) \div c
                      /\ ((j + 1) * y) * ((j + 1) * y) > (x * x) \div c
         IN  IF (a < 0) = (b < 0) THEN k ELSE -k

\* risk_amount is the real number num / (den * sqrt(root)); the result is
\* [raised, size]
adjust_position_size_for_volatility(mc, atr, risk_amount, last_price) ==
    IF last_price.k = "none" THEN [raised |-> TRUE, size |-> 0]
    ELSE IF Le(last_price, F(0)) THEN [raised |-> FALSE, size |-> 0]
    ELSE LET atr_multiplier == IF mc = "Bull" THEN 15 ELSE 25
         IN  IF atr.k \in {"nan", "none"} \/ last_price.k = "nan"
             THEN [raised |-> TRUE, size |-> 0]
             ELSE IF atr.k \in {"inf", "ninf"} \/ last_price.k = "inf"
             THEN [raised |-> FALSE, size |-> 0]
             ELSE IF atr.n = 0 THEN [raised |-> TRUE, size |-> 0]
             ELSE [raised |-> FALSE,
                   size |-> TruncDivRoot(risk_amount.num * 10 * atr.d * last_price.d,
                                         risk_amount.den * atr.n * atr_multiplier * last_price.n,
                                         risk_amount.root)]

\* [raised, periods]
get_asset_sma_periods(mc, d) ==
    CASE mc = "Bull" ->
            LET bars == get_valid_data(d)
            IN  IF bars = "raise" THEN [raised |-> TRUE, periods |-> <<10, 30>>]
                ELSE IF bars = "df"
                THEN [raised |-> FALSE,
                      periods |-> IF Gt(d.adx, F(25)) THEN <<15, 40>> ELSE <<20, 50>>]
                ELSE [raised |-> FALSE, periods |-> <<10, 30>>]
      [] mc = "Bear" -> [raised |-> FALSE, periods |-> <<5, 20>>]
      [] mc = "Flat" -> [raised |-> FALSE, periods |-> <<30, 70>>]
      [] OTHER -> [raised |-> FALSE, periods |-> <<10, 30>>]

Order(stock, side, quantity, stop, take) ==
    [symbol |-> stock, side |-> side, quantity |-> quantity,
     stop_loss_price |-> stop, take_profit_price |-> take]

\* a buy without the test of the quantity
place_trade_AnyQuantity(m, stock, d, quantity, atr) ==
    LET last_price == d.price
    IN  IF last_price.k = "none" THEN Raise(m)
        ELSE IF Le(last_price, F(0)) THEN m
        ELSE [m EXCEPT !.orders = Append(@,
                 Order(stock, "buy", quantity,
                       Frac(2 * last_price.n * atr.d - 3 * atr.n * last_price.d,
                            2 * last_price.d * atr.d),
                       Frac(last_price.n * atr.d + 2 * atr.n * last_price.d,
                            last_price.d * atr.d)))]

place_trade(m, stock, d, quantity, atr) ==
    IF quantity <= 0 THEN m
    ELSE LET last_price == d.price
         IN  IF last_price.k = "none" THEN Raise(m)
             ELSE IF Le(last_price, F(0)) THEN m
             ELSE [m EXCEPT !.orders = Append(@,
                      Order(stock, "buy", quantity,
                            Frac(2 * last_price.n * atr.d - 3 * atr.n * last_price.d,
                                 2 * last_price.d * atr.d),
                            Frac(last_price.n * atr.d + 2 * atr.n * last_price.d,
                                 last_price.d * atr.d)))]

\* a close that sells half of the position
close_position_Partial(m, stock, d) ==
    IF d.qty > 0
    THEN [m EXCEPT !.orders = Append(@, Order(stock, "sell", d.qty \div 2, None, None))]
    ELSE m

close_position(m, stock, d) ==
    IF d.qty > 0
    THEN [m EXCEPT !.orders = Append(@, Order(stock, "sell", d.qty, None, None))]
    ELSE m

RECURSIVE Factorial(_)
Factorial(n) == IF n <= 1 THEN 1 ELSE n * Factorial(n - 1)

\* sum(1 / (index + 1) for index in range(n)) as the fraction num / den
total_weight(n) ==
    [num |-> SeqSum([j \in 1..n |-> Factorial(n) \div j]), den |-> Factorial(n)]

\* one pass of the loop of allocate_positions, for top_assets[i] (index i - 1)
AllocateOne(m, top_assets, i, data, available_cash) ==
    LET stock == top_assets[i]
        d == data[stock]
        bars == get_historical_prices(d)
        sma == get_asset_sma_periods(m.market_condition, d)
        sma_short_val == RollingMean(d, sma.periods[1])
        sma_long_val == RollingMean(d, sma.periods[2])
        atr == d.atr
        last_price == d.price
        tw == total_weight(Len(top_assets))
        risk_amount == [num |-> available_cash * m.risk_per_trade * tw.den,
                        den |-> tw.num, root |-> i]
        sized == adjust_position_size_for_volatility(m.market_condition, atr,
                                                     risk_amount, last_price)
        current_quantity == d.qty
    IN  IF bars = "raise" THEN Raise(m)
        ELSE IF bars = "empty" THEN m
        ELSE IF sma.raised THEN Raise(m)
        ELSE IF IsNaN(atr) \/ Le(atr, F(0)) THEN m
        ELSE IF last_price.k = "none" THEN Raise(m)
        ELSE IF Le(last_price, F(0)) THEN m
        ELSE IF sized.raised THEN Raise(m)
        ELSE IF current_quantity > 0
        THEN IF Gt(sma_short_val, sma_long_val)
             THEN place_trade(m, stock, d, sized.size, atr)
             ELSE IF Lt(sma_short_val, sma_long_val)
             THEN close_position(m, stock, d)
             ELSE m
        ELSE m

RECURSIVE AllocateFrom(_, _, _, _, _)
AllocateFrom(m, top_assets, i, data, available_cash) ==
    IF i > Len(top_assets) \/ m.raised THEN m
    ELSE AllocateFrom(AllocateOne([m EXCEPT !.visited = i], top_assets, i, data,
                                  available_cash),
                      top_assets, i + 1, data, available_cash)

allocate_positions(m, top_assets, data, available_cash) ==
    AllocateFrom(Step(m, "allocate"), top_assets, 1, data, available_cash)

\* the results on_trading_iteration can have: the running state at its end,
\* how it ended, and what it computed on the way
Result(m, outcome, drawdown, ranked_assets, top_assets) ==
    [m |-> m, outcome |-> outcome, drawdown |-> drawdown,
     ranked_assets |-> ranked_assets, top_assets |-> top_assets]

\* a drawdown gate that only logs
AfterDrawdown_NoGate(dd, data, available_cash) ==
    LET ranked_assets == rank_assets(dd.m.universe, data)
        top_assets == SubSeq(ranked_assets, 1, Min(3, Len(ranked_assets)))
        done == allocate_positions(Step(dd.m, "rank"), top_assets, data, available_cash)
    IN  IF dd.m.raised THEN Result(dd.m, "crashed", dd.drawdown, <<>>, <<>>)
        ELSE IF ranked_assets = <<>>
        THEN Result(Step(dd.m, "rank"), "no_ranked", dd.drawdown, <<>>, <<>>)
        ELSE Result(done, IF done.raised THEN "crashed" ELSE "allocated",
                    dd.drawdown, ranked_assets, top_assets)

\* a gate that also halts at exactly -20 percent
AfterDrawdown_HaltAtThreshold(dd, data, available_cash) ==
    LET ranked_assets == rank_assets(dd.m.universe, data)
        top_assets == SubSeq(ranked_assets, 1, Min(3, Len(ranked_assets)))
        done == allocate_positions(Step(dd.m, "rank"), top_assets, data, available_cash)
    IN  IF dd.m.raised THEN Result(dd.m, "crashed", dd.drawdown, <<>>, <<>>)
        ELSE IF Le(dd.drawdown, F(-20))
        THEN Result(dd.m, "halted", dd.drawdown, <<>>, <<>>)
        ELSE IF ranked_assets = <<>>
        THEN Result(Step(dd.m, "rank"), "no_ranked", dd.drawdown, <<>>, <<>>)
        ELSE Result(done, IF done.raised THEN "crashed" ELSE "allocated",
                    dd.drawdown, ranked_assets, top_assets)

AfterDrawdown(dd, data, available_cash) ==
    LET ranked_assets == rank_assets(dd.m.universe, data)
        top_assets == SubSeq(ranked_assets, 1, Min(3, Len(ranked_assets)))
        done == allocate_positions(Step(dd.m, "rank"), top_assets, data, available_cash)
    IN  IF dd.m.raised THEN Result(dd.m, "crashed", dd.drawdown, <<>>, <<>>)
        ELSE IF Lt(dd.drawdown, F(-20))
        THEN Result(dd.m, "halted", dd.drawdown, <<>>, <<>>)
        ELSE IF ranked_assets = <<>>
        THEN Result(Step(dd.m, "rank"), "no_ranked", dd.drawdown, <<>>, <<>>)
        ELSE Result(done, IF done.raised THEN "crashed" ELSE "allocated",
                    dd.drawdown, ranked_assets, top_assets)

\* a cycle that walks the universe as an unordered collection: in the
\* listed order or in the opposite one
on_trading_iteration_AnyOrder(m0, pv, available_cash, s, data) ==
    LET Run(u) ==
            LET m1 == detect_market_condition([m0 EXCEPT !.universe = u], s)
                m2 == adjust_for_volatility(m1, s)
                m3 == filter_universe(m2, data)
            IN  IF m1.raised THEN {Result(m1, "crashed", None, <<>>, <<>>)}
                ELSE IF m2.raised THEN {Result(m2, "crashed", None, <<>>, <<>>)}
                ELSE IF m3.raised THEN {Result(m3, "crashed", None, <<>>, <<>>)}
                ELSE IF m3.universe = <<>>
                THEN {Result(m3, "no_universe", None, <<>>, <<>>)}
                ELSE {AfterDrawdown(dd, data, available_cash) :
                         dd \in calculate_drawdown(m3, pv)}
    IN  Run(m0.universe) \cup Run(Reverse(m0.universe))

on_trading_iteration(m0, pv, available_cash, s, data) ==
    LET m1 == detect_market_condition(m0, s)
        m2 == adjust_for_volatility(m1, s)
        m3 == filter_universe(m2, data)
    IN  IF m1.raised THEN {Result(m1, "crashed", None, <<>>, <<>>)}
        ELSE IF m2.raised THEN {Result(m2, "crashed", None, <<>>, <<>>)}
        ELSE IF m3.raised THEN {Result(m3, "crashed", None, <<>>, <<>>)}
        ELSE IF m3.universe = <<>>
        THEN {Result(m3, "no_universe", None, <<>>, <<>>)}
        ELSE {AfterDrawdown(dd, data, available_cash) :
                 dd \in calculate_drawdown(m3, pv)}

before_market_opens(m0, s) ==
    LET m == detect_market_condition(m0, s)
    IN  Result(m, IF m.raised THEN "crashed" ELSE "done", None, <<>>, <<>>)

----------------------------------------------------------------------------
(* SimpleMomentumBot.  The bot's fields are the record simple; the stop     *)
(* loss multiplier is in tenths and the risk fraction in thousandths.  The  *)
(* benchmark's bars carry what determine_market_condition reads: sma_50,    *)
(* sma_200, rsi (last RSI), atr (last ATR) and close (last close).          *)

simple_risk_per_trade == 20

simple_stop_loss_multiplier == 15

\* initialize
SimpleInitial(u) ==
    [universe |-> u, portfolio_peak |-> 0,
     stop_loss_multiplier |-> simple_stop_loss_multiplier,
     risk_per_trade |-> simple_risk_per_trade,
     day_trades_count |-> [buy |-> 0, sell |-> 0]]

\* the running state of one handler call of SimpleMomentumBot
SimpleStart(b) ==
    [bot |-> b, orders |-> <<>>, raised |-> FALSE, strategy_ran |-> FALSE]

\* int(a / b) for b > 0: truncation towards 0
TruncDiv(a, b) == IF a >= 0 THEN a \div b ELSE -((-a) \div b)

\* helper.calculate_rsi(...).iloc[-1]: calculate_rsi returns None for fewer
\* than 14 closes, and None.iloc raises
calculate_rsi_last(s) == IF s.bars < 14 THEN None ELSE s.rsi

\* helper.calculate_atr drops the NaN rows: with fewer than 14 bars nothing
\* is left ("empty"), else the last value is the last ATR
calculate_atr_last(d) == IF d.bars < 14 THEN "empty" ELSE "value"

determine_market_condition(s) ==
    IF s.hist = "raise" THEN "Neutral"
    ELSE IF s.hist = "none" \/ s.bars = 0 THEN "Neutral"
    ELSE LET sma_50 == IF s.bars < 50 THEN NaN ELSE F(s.sma_50)
             sma_200 == IF s.bars < 200 THEN NaN ELSE F(s.sma_200)
             rsi == calculate_rsi_last(s)
             atr_pct == IF s.bars < 14 THEN NaN ELSE Frac(s.atr, s.close)
         IN  IF rsi.k = "none" THEN "Neutral"
             ELSE IF Gt(sma_50, sma_200) /\ Gt(rsi, F(50)) /\ Lt(atr_pct, Frac(2, 100))
             THEN "Bullish"
             ELSE IF Lt(sma_50, sma_200) /\ Lt(rsi, F(50)) /\ Gt(atr_pct, Frac(3, 100))
             THEN "Bearish"
             ELSE "Neutral"

\* the possible results of SimpleMomentumBot.calculate_drawdown, as for
\* SMAMomentumBot
simple_calculate_drawdown(m0, pv) ==
    LET peak == Max(m0.bot.portfolio_peak, pv)
        m == [m0 EXCEPT !.bot.portfolio_peak = peak]
    IN  IF peak # 0
        THEN {[m |-> m, drawdown |-> Frac((pv - peak) * 100, peak)]}
        ELSE {[m |-> Raise(m), drawdown |-> None],
              [m |-> m, drawdown |-> NpDiv((pv - peak) * 100, 0)]}

\* SimpleMomentumBot.rank_assets: no minimum of bars; a fetch that raises or
\* returns nothing and an empty frame raise inside the try
simple_rank_assets(u, data) ==
    LET Scored(stock) == data[stock].hist = "ok" /\ data[stock].bars > 0
        scores == [stock \in DOMAIN data |-> Score(data[stock])]
    IN  sorted_reverse(SelectSeq(u, Scored), scores)

simple_place_trade(m, stock, d, quantity) ==
    IF d.price.k = "none" \/ Le(d.price, F(0)) THEN m
    ELSE IF quantity <= 0 THEN m
    ELSE [m EXCEPT !.orders = Append(@, Order(stock, "buy", quantity, None, None))]

simple_close_position(m, stock, d) ==
    IF d.qty > 0
    THEN [m EXCEPT !.orders = Append(@, Order(stock, "sell", d.qty, None, None))]
    ELSE m

\* one pass of the loop of regular_momentum_strategy; pv and available_cash
\* are in thousands of dollars
StrategyOne(m, stock, d, pv, available_cash) ==
    LET sma_short == RollingMean(d, 10)
        sma_long == RollingMean(d, 30)
        atr == d.atr
        last_price == d.price
        current_quantity == d.qty
        portfolio_risk == m.bot.risk_per_trade * pv
        max_risk == Min(portfolio_risk, available_cash * 1000)
        \* int(max_risk / risk_per_share), risk_per_share = atr * stop_loss_multiplier
        by_risk == IF IsFinite(atr)
                   THEN TruncDiv(max_risk * 10 * atr.d,
                                 atr.n * m.bot.stop_loss_multiplier)
                   ELSE 0
        max_quantity_by_cash ==
            IF IsFinite(last_price)
            THEN TruncDiv(available_cash * 1000 * last_price.d, last_price.n)
            ELSE 0
        quantity == Min(by_risk, max_quantity_by_cash)
    IN  IF d.hist # "ok" THEN m
        ELSE IF d.bars = 0 THEN Raise(m)
        ELSE IF calculate_atr_last(d) = "empty" THEN Raise(m)
        ELSE IF Le(atr, F(0)) THEN m
        ELSE IF last_price.k = "none" THEN Raise(m)
        ELSE IF Le(last_price, F(0)) THEN m
        ELSE IF IsNaN(atr) THEN m
        ELSE IF IsNaN(last_price) THEN Raise(m)
        ELSE IF Gt(sma_short, sma_long) /\ current_quantity = 0
        THEN simple_place_trade([m EXCEPT !.bot.day_trades_count.buy = @ + 1],
                                stock, d, quantity)
        ELSE IF Lt(sma_short, sma_long) /\ current_quantity > 0
        THEN simple_close_position([m EXCEPT !.bot.day_trades_count.sell = @ + 1],
                                   stock, d)
        ELSE m

RECURSIVE StrategyFrom(_, _, _, _, _, _)
StrategyFrom(m, top_assets, i, data, pv, available_cash) ==
    IF i > Len(top_assets) \/ m.raised THEN m
    ELSE StrategyFrom(StrategyOne(m, top_assets[i], data[top_assets[i]], pv,
                                  available_cash),
                      top_assets, i + 1, data, pv, available_cash)

regular_momentum_strategy(m, data, pv, available_cash) ==
    LET ranked_assets == simple_rank_assets(m.bot.universe, data)
        top_assets == SubSeq(ranked_assets, 1, Min(3, Len(ranked_assets)))
    IN  StrategyFrom([m EXCEPT !.strategy_ran = TRUE], top_assets, 1, data, pv,
                     available_cash)

SimpleResult(m, mc, drawdown, outcome) ==
    [m |-> m, market_condition |-> mc, drawdown |-> drawdown,
     outcome |-> outcome]

\* a cycle that pauses in a Bearish market only
SimpleAfterDrawdown_TradesUnlessBearish(dd, mc, data, pv, available_cash) ==
    LET done == regular_momentum_strategy(dd.m, data, pv, available_cash)
    IN  IF dd.m.raised THEN SimpleResult(dd.m, mc, dd.drawdown, "crashed")
        ELSE IF Lt(dd.drawdown, F(-20))
        THEN SimpleResult(dd.m, mc, dd.drawdown, "halted")
        ELSE IF mc = "Bearish"
        THEN SimpleResult(dd.m, mc, dd.drawdown, "paused")
        ELSE SimpleResult(done, mc, dd.drawdown,
                          IF done.raised THEN "crashed" ELSE "traded")

\* the rest of on_trading_iteration after calculate_drawdown
SimpleAfterDrawdown(dd, mc, data, pv, available_cash) ==
    LET done == regular_momentum_strategy(dd.m, data, pv, available_cash)
    IN  IF dd.m.raised THEN SimpleResult(dd.m, mc, dd.drawdown, "crashed")
        ELSE IF Lt(dd.drawdown, F(-20))
        THEN SimpleResult(dd.m, mc, dd.drawdown, "halted")
        ELSE IF mc = "Bearish"
        THEN SimpleResult(dd.m, mc, dd.drawdown, "paused")
        ELSE IF mc = "Bullish"
        THEN SimpleResult(done, mc, dd.drawdown,
                          IF done.raised THEN "crashed" ELSE "traded")
        ELSE SimpleResult(dd.m, mc, dd.drawdown, "holding")

simple_on_trading_iteration(m0, pv, available_cash, s, data) ==
    LET mc == determine_market_condition(s)
    IN  {SimpleAfterDrawdown(dd, mc, data, pv, available_cash) :
            dd \in simple_calculate_drawdown(m0, pv)}

\* a hook that halves the current risk fraction
on_bot_crash_HalvesCurrent(m) ==
    [m EXCEPT !.bot.risk_per_trade = @ \div 2, !.bot.stop_loss_multiplier = 10]

on_bot_crash(m) ==
    [m EXCEPT !.bot.risk_per_trade = 10, !.bot.stop_loss_multiplier = 10]

after_market_closes(m) ==
    [m EXCEPT !.bot.day_trades_count = [buy |-> 0, sell |-> 0]]

----------------------------------------------------------------------------
(* The state machine *)

SimpleUniverse == <<"NVDA", "AAPL">>

AllSymbols == {"VOO", "QQQ"}
InitialUniverse == <<"VOO", "QQQ">>

\* a symbol in an uptrend, with valid data, not held
BaseSym ==
    [hist |-> "ok", bars |-> 252, slope |-> 1, adx |-> F(30), mom |-> 10,
     vol |-> 2, atr |-> F(2), price |-> F(5), qty |-> 0]

SymCases ==
    {[BaseSym EXCEPT !.slope = c[1], !.qty = c[2]] :
        c \in {<<1, 0>>, <<1, 4>>, <<-1, 4>>}}
    \cup {[BaseSym EXCEPT !.slope = -1, !.qty = 4, !.atr = NaN],
          [BaseSym EXCEPT !.price = None],
          [BaseSym EXCEPT !.hist = "raise"],
          [BaseSym EXCEPT !.bars = 0],
          [BaseSym EXCEPT !.mom = 0, !.vol = 0],
          [BaseSym EXCEPT !.mom = 20, !.slope = -1, !.qty = 4]}

\* a rising benchmark in a calm market: Bull
BaseSpy ==
    [hist |-> "ok", bars |-> 252, slope |-> 20, vol |-> 10, sma_50 |-> 110,
     sma_200 |-> 100, atr |-> 2, mean |-> 100]

SpyCases ==
    {BaseSpy,
     [BaseSpy EXCEPT !.slope = -20, !.sma_50 = 90],
     [BaseSpy EXCEPT !.slope = 7],
     [BaseSpy EXCEPT !.atr = 6],
     [BaseSpy EXCEPT !.bars = 49],
     [BaseSpy EXCEPT !.hist = "raise"]}

Equities == {0, 9, 10, 12}

\* the bot's fields
Fields(u, r, mc, pk) ==
    [universe |-> u, risk_per_trade |-> r, market_condition |-> mc,
     portfolio_peak |-> pk]

NoRun ==
    [handler |-> "none", outcome |-> "none", orders |-> <<>>, steps |-> <<>>,
     risk_writes |-> 0, peak_writes |-> 0, visited |-> 0, drawdown |-> None,
     ranked_assets |-> <<>>, top_assets |-> <<>>,
     before |-> Fields(<<>>, 0, "Neutral", 0)]

NoProbe == [fn |-> "none"]

Ran(handler, r, before) ==
    [handler |-> handler, outcome |-> r.outcome, orders |-> r.m.orders,
     steps |-> r.m.steps, risk_writes |-> r.m.risk_writes,
     peak_writes |-> r.m.peak_writes, visited |-> r.m.visited,
     drawdown |-> r.drawdown,
     ranked_assets |-> r.ranked_assets, top_assets |-> r.top_assets,
     before |-> before]

Init ==
    /\ universe = InitialUniverse
    /\ risk_per_trade = base_risk_per_trade
    /\ market_condition = "Neutral"
    /\ portfolio_peak = 0
    /\ portfolio_value = 10
    /\ cash = 10
    /\ spy = BaseSpy
    /\ sym = [stock \in AllSymbols |-> BaseSym]
    /\ last = NoRun
    /\ simple = SimpleInitial(SimpleUniverse)
    /\ halted_once = FALSE
    /\ probe = NoProbe

\* the handler's writes to the bot's fields
CommitFields(handler, r) ==
    /\ universe' = r.m.universe
    /\ risk_per_trade' = r.m.risk_per_trade
    /\ market_condition' = r.m.market_condition
    /\ portfolio_peak' = r.m.portfolio_peak
    /\ last' = Ran(handler, r,
                    Fields(universe, risk_per_trade, market_condition, portfolio_peak))

Commit(handler, r) ==
    /\ CommitFields(handler, r)
    /\ UNCHANGED <<envVars, probe, simple, halted_once>>

OnTradingIteration ==
    \E r \in on_trading_iteration(
                 Start(universe, risk_per_trade, market_condition, portfolio_peak),
                 portfolio_value, cash, spy, sym) :
        Commit("on_trading_iteration", r)

BeforeMarketOpens ==
    Commit("before_market_opens",
           before_market_opens(
               Start(universe, risk_per_trade, market_condition, portfolio_peak), spy))

\* the collaborators' answers change between handler calls
EquityMoves ==
    /\ \E pv \in Equities : portfolio_value' = pv
    /\ last' = NoRun
    /\ UNCHANGED <<botVars, cash, spy, sym, probe, simple, halted_once>>

BenchmarkMoves ==
    /\ \E s \in SpyCases : spy' = s
    /\ last' = NoRun
    /\ UNCHANGED <<botVars, portfolio_value, cash, sym, probe, simple, halted_once>>

SymbolMoves ==
    /\ \E stock \in AllSymbols, c \in SymCases : sym' = [sym EXCEPT ![stock] = c]
    /\ last' = NoRun
    /\ UNCHANGED <<botVars, portfolio_value, cash, spy, probe, simple, halted_once>>

Next ==
    \/ OnTradingIteration
    \/ EquityMoves
    \/ BenchmarkMoves
    \/ SymbolMoves

Spec == Init /\ [][Next]_vars

----------------------------------------------------------------------------
(* Vocabulary of the properties.  After a handler ran, last describes the   *)
(* run and the collaborators' variables still hold the answers it was given. *)

Cycle == last.handler = "on_trading_iteration"

InSteps(name) == \E i \in DOMAIN last.steps : last.steps[i] = name

Pos(name) == CHOOSE i \in DOMAIN last.steps : last.steps[i] = name

InOrder(a, b) == (InSteps(a) /\ InSteps(b)) => Pos(a) < Pos(b)

IsPrefix(s, t) == Len(s) <= Len(t) /\ \A i \in DOMAIN s : s[i] = t[i]

OrdersOf(stock, side) ==
    {j \in DOMAIN last.orders :
        last.orders[j].symbol = stock /\ last.orders[j].side = side}

ValidATR(d) == IsFinite(d.atr) /\ Gt(d.atr, F(0))
ValidPrice(d) == IsFinite(d.price) /\ Gt(d.price, F(0))

\* smaShort and smaLong of a symbol, over the periods of this cycle's regime
SmaShort(d) == RollingMean(d, get_asset_sma_periods(market_condition, d).periods[1])
SmaLong(d) == RollingMean(d, get_asset_sma_periods(market_condition, d).periods[2])
CrossUp(d) == Gt(SmaShort(d), SmaLong(d))
CrossDown(d) == Lt(SmaShort(d), SmaLong(d))

\* the position sizer's quantity for the i-th selected symbol
SizedQuantity(i) ==
    LET tw == total_weight(Len(last.top_assets))
        d == sym[last.top_assets[i]]
    IN  adjust_position_size_for_volatility(
            market_condition, d.atr,
            [num |-> cash * risk_per_trade * tw.den, den |-> tw.num, root |-> i],
            d.price).size

----------------------------------------------------------------------------
(* C1: every call of calculate_drawdown returns a defined drawdown that is  *)
(* <= 0, and portfolio_peak after the call is >= its value before.         *)
C1_DrawdownDefined ==
    (Cycle /\ InSteps("drawdown")) =>
        /\ IsFinite(last.drawdown)
        /\ Le(last.drawdown, F(0))
        /\ portfolio_peak >= last.before.portfolio_peak

(* C2: a cycle whose drawdown is below -20 percent returns without any      *)
(* order; the peak is the running maximum of the equity, so equity 9000     *)
(* after a peak of 12000 gives -25 percent and a halted cycle.              *)
C2_HaltedNoOrders ==
    Cycle =>
        /\ Lt(last.drawdown, F(-20)) => (last.orders = <<>> /\ last.outcome = "halted")
        /\ InSteps("drawdown") =>
               portfolio_peak = Max(last.before.portfolio_peak, portfolio_value)
        /\ (InSteps("drawdown") /\ last.before.portfolio_peak = 12 /\ portfolio_value = 9) =>
               /\ ~Lt(last.drawdown, F(-25)) /\ ~Gt(last.drawdown, F(-25))
               /\ portfolio_peak = 12
               /\ last.outcome = "halted"

\* a halted cycle at equity 9 under a peak of 12, with a held symbol in a
\* downtrend that would otherwise be sold
C2_Witness ==
    /\ Cycle
    /\ last.outcome = "halted"
    /\ last.before.portfolio_peak = 12
    /\ portfolio_value = 9
    /\ \E i \in DOMAIN universe :
           LET d == sym[universe[i]]
           IN  d.qty > 0 /\ d.slope < 0 /\ ValidATR(d) /\ ValidPrice(d)

(* C3: in a cycle that is not halted, a selected symbol with valid ATR and  *)
(* last price, smaShort > smaLong and no position gets a Buy order of the   *)
(* sized quantity (when that is positive).                                  *)
C3_BuyOnCrossUp ==
    (Cycle /\ last.outcome # "halted") =>
        \A i \in DOMAIN last.top_assets :
            LET stock == last.top_assets[i]
                d == sym[stock]
            IN  (/\ ValidATR(d) /\ ValidPrice(d)
                 /\ CrossUp(d) /\ d.qty = 0
                 /\ SizedQuantity(i) > 0) =>
                    \E j \in OrdersOf(stock, "buy") :
                        last.orders[j].quantity = SizedQuantity(i)

Processed(i) == i < last.visited \/ (i = last.visited /\ last.outcome # "crashed")

C5_NoOtherOrders ==
    Cycle =>
        \A j \in DOMAIN last.orders :
            LET d == sym[last.orders[j].symbol]
            IN  \/ last.orders[j].side = "buy" /\ CrossUp(d) /\ d.qty = 0
                \/ last.orders[j].side = "sell" /\ CrossDown(d) /\ d.qty > 0

(* C6: when positions are sized, risk_per_trade = base_risk_per_trade x     *)
(* regime multiplier x volatility multiplier (0.5 on high volatility).     *)
C6_RiskIsProduct ==
    (Cycle /\ InSteps("allocate")) =>
        risk_per_trade * 100 =
            base_risk_per_trade * risk_multipliers(market_condition)
                * (IF detect_high_volatility(spy) = "TRUE" THEN 5 ELSE 10)

(* C7 as stated: in every cycle the peak and the risk fraction are each     *)
(* written exactly once, the steps run in the order regime, risk, ranking,  *)
(* drawdown gate, sizing, and afterwards the peak is >= the equity.         *)
C7_OnceEachInSpecOrder ==
    Cycle =>
        /\ last.risk_writes = 1
        /\ last.peak_writes = 1
        /\ InOrder("regime", "risk")
        /\ InOrder("risk", "rank")
        /\ InOrder("rank", "drawdown")
        /\ InOrder("drawdown", "allocate")
        /\ portfolio_peak >= portfolio_value

(* C7 as amended: the steps run in the order regime, risk, universe filter, *)
(* drawdown gate, ranking, sizing, a cycle ending after any of them; the    *)
(* risk fraction is written twice (regime, then volatility) with valid      *)
(* benchmark data and once without; the peak is written once in a cycle     *)
(* that gets to the drawdown gate, where it becomes the maximum of the old  *)
(* peak and the equity, and not at all in a cycle that ends before it.      *)
C7_WritesAndOrder ==
    Cycle =>
        /\ IsPrefix(last.steps,
                    <<"regime", "risk", "filter", "drawdown", "rank", "allocate">>)
        /\ last.risk_writes <= 2
        /\ Len(last.steps) >= 3 =>
               last.risk_writes = IF market_condition = "Neutral" THEN 1 ELSE 2
        /\ InSteps("drawdown") =>
               /\ last.peak_writes = 1
               /\ portfolio_peak = Max(last.before.portfolio_peak, portfolio_value)
               /\ portfolio_peak >= portfolio_value
        /\ ~InSteps("drawdown") =>
               /\ last.peak_writes = 0
               /\ portfolio_peak = last.before.portfolio_peak

\* a cycle that ran all six steps
C7_Witness ==
    /\ Cycle
    /\ last.outcome = "allocated"
    /\ last.risk_writes = 2
    /\ last.peak_writes = 1
    /\ last.before.portfolio_peak < portfolio_value

(* C8: when the fetch of one symbol's price data fails (raises or returns   *)
(* nothing), the cycle is not aborted, the symbol gets no order and the     *)
(* orders are those of the same cycle without that symbol.                  *)
FetchFails(d) == get_historical_prices(d) \in {"raise", "empty"}

Without(u, stock) == SelectSeq(u, LAMBDA x : x # stock)

C8_FailureIsolated ==
    Cycle =>
        \A i \in DOMAIN last.before.universe :
            LET stock == last.before.universe[i]
                b == last.before
            IN  FetchFails(sym[stock]) =>
                    /\ last.outcome # "crashed"
                    /\ \A j \in DOMAIN last.orders : last.orders[j].symbol # stock
                    /\ \E r \in on_trading_iteration(
                                    Start(Without(b.universe, stock), b.risk_per_trade,
                                          b.market_condition, b.portfolio_peak),
                                    portfolio_value, cash, spy, sym) :
                           r.m.orders = last.orders

----------------------------------------------------------------------------
(* adjust_position_size_for_volatility on its own: one call with drawn      *)
(* arguments, under each market condition.                                  *)

SizerATRs == {F(-2), F(0), F(1), F(2), NaN}
SizerRiskAmounts == {0, 100, 1000, 5000}
SizerPrices == {F(-1), F(0), F(5), F(50)}

InitSizer ==
    /\ universe = InitialUniverse
    /\ risk_per_trade = base_risk_per_trade
    /\ market_condition \in {"Bull", "Bear", "Flat", "Neutral"}
    /\ portfolio_peak = 0
    /\ portfolio_value = 10
    /\ cash = 10
    /\ spy = BaseSpy
    /\ sym = [stock \in AllSymbols |-> BaseSym]
    /\ last = NoRun
    /\ simple = SimpleInitial(SimpleUniverse)
    /\ halted_once = FALSE
    /\ probe \in {[fn |-> "adjust_position_size_for_volatility", atr |-> a,
                   risk_amount |-> ra, last_price |-> lp, called |-> FALSE,
                   raised |-> FALSE, size |-> 0] :
                     a \in SizerATRs, ra \in SizerRiskAmounts, lp \in SizerPrices}

SizeOnce ==
    /\ probe.fn = "adjust_position_size_for_volatility"
    /\ ~probe.called
    /\ LET r == adjust_position_size_for_volatility(
                    market_condition, probe.atr,
                    [num |-> probe.risk_amount, den |-> 1, root |-> 1],
                    probe.last_price)
       IN  probe' = [probe EXCEPT !.called = TRUE, !.raised = r.raised, !.size = r.size]
    /\ UNCHANGED <<botVars, envVars, last, simple, halted_once>>

NextSizer == SizeOnce

SpecSizer == InitSizer /\ [][NextSizer]_vars

(* C9: for all inputs with risk_amount >= 0 the position sizer returns an   *)
(* integer >= 0, and it returns 0 without raising when atr <= 0 or          *)
(* last_price <= 0.                                                         *)
C9_SizerNeverNegative ==
    (probe.fn = "adjust_position_size_for_volatility" /\ probe.called) =>
        /\ ~probe.raised
        /\ probe.size >= 0
        /\ (Le(probe.atr, F(0)) \/ Le(probe.last_price, F(0))) => probe.size = 0

----------------------------------------------------------------------------
(* rank_assets on its own: one call over a universe of three symbols with   *)
(* drawn bars.                                                              *)

RankUniverse == <<"VOO", "QQQ", "GLD">>

RankCases ==
    {[BaseSym EXCEPT !.mom = mo, !.vol = v] : mo \in {-10, 0, 10, 20}, v \in {0, 2}}
    \cup {[BaseSym EXCEPT !.hist = "raise"],
          [BaseSym EXCEPT !.bars = 0],
          [BaseSym EXCEPT !.bars = 49]}

InitRank ==
    /\ universe = RankUniverse
    /\ risk_per_trade = base_risk_per_trade
    /\ market_condition = "Neutral"
    /\ portfolio_peak = 0
    /\ portfolio_value = 10
    /\ cash = 10
    /\ spy = BaseSpy
    /\ sym \in [{RankUniverse[i] : i \in DOMAIN RankUniverse} -> RankCases]
    /\ last = NoRun
    /\ simple = SimpleInitial(SimpleUniverse)
    /\ halted_once = FALSE
    /\ probe = [fn |-> "rank_assets", called |-> FALSE, ranked |-> <<>>]

RankOnce ==
    /\ probe.fn = "rank_assets"
    /\ ~probe.called
    /\ probe' = [probe EXCEPT !.called = TRUE, !.ranked = rank_assets(universe, sym)]
    /\ UNCHANGED <<botVars, envVars, last, simple, halted_once>>

NextRank == RankOnce

SpecRank == InitRank /\ [][NextRank]_vars

(* C10: the list rank_assets returns is ordered by score = momentum /       *)
(* volatility, non-increasing, and has no symbol whose volatility is <= 0   *)
(* or whose score is not finite.                                            *)
C10_RankedByFiniteScore ==
    (probe.fn = "rank_assets" /\ probe.called) =>
        /\ \A i, j \in DOMAIN probe.ranked :
               i < j => Le(Score(sym[probe.ranked[j]]), Score(sym[probe.ranked[i]]))
        /\ \A i \in DOMAIN probe.ranked :
               /\ Gt(RollingStd20(sym[probe.ranked[i]]), F(0))
               /\ IsFinite(Score(sym[probe.ranked[i]]))

----------------------------------------------------------------------------
(* A trading session of SMAMomentumBot: the session-open hook and the       *)
(* trading cycle, over benchmark series of every length class; the symbols  *)
(* keep their first bars.                                                   *)

SessionSpyCases ==
    SpyCases
    \cup {[BaseSpy EXCEPT !.bars = 0],
          [BaseSpy EXCEPT !.hist = "none"],
          [BaseSpy EXCEPT !.bars = 50],
          [BaseSpy EXCEPT !.bars = 60],
          [BaseSpy EXCEPT !.bars = 199],
          [BaseSpy EXCEPT !.bars = 60, !.atr = 6]}

SessionBenchmarkMoves ==
    /\ \E s \in SessionSpyCases : spy' = s
    /\ last' = NoRun
    /\ UNCHANGED <<botVars, portfolio_value, cash, sym, probe, simple, halted_once>>

NextSession ==
    \/ OnTradingIteration
    \/ BeforeMarketOpens
    \/ EquityMoves
    \/ SessionBenchmarkMoves

SpecSession == Init /\ [][NextSession]_vars

\* the last handler's call of detect_market_condition returned (did not raise)
ClassifierReturned ==
    /\ last.handler \in {"on_trading_iteration", "before_market_opens"}
    /\ ~(last.outcome = "crashed" /\ Len(last.steps) = 1)

ComputedRegimes == {"Bull", "Bear", "Flat"}

(* C11 as stated: the classifier returns Neutral if and only if the         *)
(* benchmark series is unavailable or empty; for every non-empty series,    *)
(* also one of fewer than 50 or 200 bars, it returns Bull, Bear or Flat.    *)
C11_NeutralIffEmpty ==
    ClassifierReturned =>
        /\ (market_condition = "Neutral") <=> (get_historical_prices(spy) = "empty")
        /\ get_historical_prices(spy) = "bars" => market_condition \in ComputedRegimes

(* C11 as amended: detect_market_condition returns Neutral if and only if   *)
(* the benchmark fetch returns nothing, an empty series or a series of      *)
(* fewer than 50 bars; for every series of 50 bars or more it returns Bull, *)
(* Bear or Flat, and Flat when the series has fewer than 200 bars; a fetch  *)
(* that raises leaves market_condition as it was.                           *)
C11_NeutralIffUnder50 ==
    /\ ClassifierReturned =>
           /\ (market_condition = "Neutral") <=>
                  (get_historical_prices(spy) = "empty" \/ spy.bars < 50)
           /\ (get_historical_prices(spy) = "bars" /\ spy.bars >= 50) =>
                  market_condition \in ComputedRegimes
           /\ (get_historical_prices(spy) = "bars" /\ spy.bars >= 50 /\ spy.bars < 200) =>
                  market_condition = "Flat"
    /\ (last.handler # "none" /\ ~ClassifierReturned) =>
           /\ get_historical_prices(spy) = "raise"
           /\ market_condition = last.before.market_condition

\* a rising benchmark of 60 bars, classified Flat after a Bull cycle
C11_Witness ==
    /\ ClassifierReturned
    /\ spy.hist = "ok" /\ spy.bars = 60 /\ spy.slope = 20
    /\ market_condition = "Flat"
    /\ last.before.market_condition = "Bull"

----------------------------------------------------------------------------
(* SimpleMomentumBot as a state machine: the trading cycle, the fault hook  *)
(* and the market close, with the collaborators' answers changing between   *)
(* them.                                                                    *)

SimpleSymbols == {SimpleUniverse[i] : i \in DOMAIN SimpleUniverse}

\* a benchmark that determine_market_condition classifies Bullish
SimpleBaseSpy ==
    [hist |-> "ok", bars |-> 252, sma_50 |-> 110, sma_200 |-> 100, rsi |-> F(60),
     atr |-> 1, close |-> 100]

SimpleSpyCases ==
    {SimpleBaseSpy,
     [SimpleBaseSpy EXCEPT !.sma_50 = 90, !.rsi = F(40), !.atr = 4],
     [SimpleBaseSpy EXCEPT !.rsi = F(50)],
     [SimpleBaseSpy EXCEPT !.bars = 10],
     [SimpleBaseSpy EXCEPT !.bars = 0],
     [SimpleBaseSpy EXCEPT !.hist = "raise"]}

SimpleSymCases ==
    {BaseSym,
     [BaseSym EXCEPT !.slope = -1, !.qty = 4],
     [BaseSym EXCEPT !.qty = 4],
     [BaseSym EXCEPT !.bars = 10],
     [BaseSym EXCEPT !.slope = -1, !.qty = 4, !.price = None]}

MaxDayTrades == 2

SimpleRan(handler, r, before) ==
    [handler |-> handler, outcome |-> r.outcome, orders |-> r.m.orders,
     market_condition |-> r.market_condition, drawdown |-> r.drawdown,
     strategy_ran |-> r.m.strategy_ran, before |-> before]

InitSimple ==
    /\ universe = InitialUniverse
    /\ risk_per_trade = base_risk_per_trade
    /\ market_condition = "Neutral"
    /\ portfolio_peak = 0
    /\ portfolio_value = 10
    /\ cash = 10
    /\ spy = SimpleBaseSpy
    /\ sym = [stock \in SimpleSymbols |-> BaseSym]
    /\ last = NoRun
    /\ probe = NoProbe
    /\ simple = SimpleInitial(SimpleUniverse)
    /\ halted_once = FALSE

SimpleOnTradingIteration ==
    /\ simple.day_trades_count.buy + simple.day_trades_count.sell < MaxDayTrades
    /\ \E r \in simple_on_trading_iteration(SimpleStart(simple), portfolio_value,
                                            cash, spy, sym) :
           /\ simple' = r.m.bot
           /\ last' = SimpleRan("on_trading_iteration", r, simple)
    /\ UNCHANGED <<botVars, envVars, probe, halted_once>>

OnBotCrash ==
    LET m == on_bot_crash(SimpleStart(simple))
    IN  /\ simple' = m.bot
        /\ last' = SimpleRan("on_bot_crash",
                             SimpleResult(m, "none", None, "done"), simple)
        /\ UNCHANGED <<botVars, envVars, probe, halted_once>>

AfterMarketCloses ==
    LET m == after_market_closes(SimpleStart(simple))
    IN  /\ simple' = m.bot
        /\ last' = SimpleRan("after_market_closes",
                             SimpleResult(m, determine_market_condition(spy), None,
                                          "done"), simple)
        /\ UNCHANGED <<botVars, envVars, probe, halted_once>>

SimpleBenchmarkMoves ==
    /\ \E s \in SimpleSpyCases : spy' = s
    /\ last' = NoRun
    /\ UNCHANGED <<botVars, portfolio_value, cash, sym, probe, simple, halted_once>>

SimpleSymbolMoves ==
    /\ \E stock \in SimpleSymbols, c \in SimpleSymCases :
           sym' = [sym EXCEPT ![stock] = c]
    /\ last' = NoRun
    /\ UNCHANGED <<botVars, portfolio_value, cash, spy, probe, simple, halted_once>>

NextSimple ==
    \/ SimpleOnTradingIteration
    \/ OnBotCrash
    \/ AfterMarketCloses
    \/ EquityMoves
    \/ SimpleBenchmarkMoves
    \/ SimpleSymbolMoves

SpecSimple == InitSimple /\ [][NextSimple]_vars

(* C12: the fault hook of SimpleMomentumBot, invoked in any state, sets the *)
(* risk fraction to half of the base risk fraction (0.01) and the stop-loss *)
(* multiplier to 1.0, changes no other field (portfolio_peak, universe,     *)
(* day_trades_count), submits no order, returns normally, and a trading     *)
(* cycle started in the state it leaves has a result.                       *)
C12_FaultHookFrame ==
    last.handler = "on_bot_crash" =>
        /\ simple.risk_per_trade * 2 = simple_risk_per_trade
        /\ simple.stop_loss_multiplier = 10
        /\ simple.portfolio_peak = last.before.portfolio_peak
        /\ simple.universe = last.before.universe
        /\ simple.day_trades_count = last.before.day_trades_count
        /\ last.orders = <<>>
        /\ last.outcome = "done"
        /\ simple_on_trading_iteration(SimpleStart(simple), portfolio_value, cash,
                                       spy, sym) # {}

\* the hook ran a second time, after a cycle that traded under the lowered
\* risk and with a position still held
C12_Witness ==
    /\ last.handler = "on_bot_crash"
    /\ last.before.risk_per_trade = 10
    /\ last.before.portfolio_peak = 12
    /\ last.before.day_trades_count.buy > 0
    /\ \E stock \in SimpleSymbols : sym[stock].qty > 0

----------------------------------------------------------------------------
(* allocate_positions over symbols with every kind of bars, ATR, last price *)
(* and position, in a Bull market with steady equity.                       *)

AllocCases ==
    {BaseSym,
     [BaseSym EXCEPT !.qty = 4],
     [BaseSym EXCEPT !.slope = -1, !.qty = 4],
     [BaseSym EXCEPT !.slope = -1, !.qty = 4, !.atr = NaN],
     [BaseSym EXCEPT !.slope = -1, !.qty = 4, !.atr = F(0)],
     [BaseSym EXCEPT !.qty = 4, !.atr = F(-1)],
     [BaseSym EXCEPT !.slope = -1, !.qty = 4, !.price = F(0)],
     [BaseSym EXCEPT !.qty = 4, !.price = F(-5)],
     [BaseSym EXCEPT !.qty = 4, !.price = F(500)],
     [BaseSym EXCEPT !.slope = 0, !.qty = 4],
     [BaseSym EXCEPT !.slope = -1, !.qty = 4, !.bars = 0],
     [BaseSym EXCEPT !.slope = -1, !.qty = 4, !.hist = "none"]}

AllocSymbolMoves ==
    /\ \E stock \in AllSymbols, c \in AllocCases : sym' = [sym EXCEPT ![stock] = c]
    /\ last' = NoRun
    /\ UNCHANGED <<botVars, portfolio_value, cash, spy, probe, simple, halted_once>>

NextAlloc ==
    \/ OnTradingIteration
    \/ AllocSymbolMoves

SpecAlloc == Init /\ [][NextAlloc]_vars

(* C13: in a trading cycle at most one order is submitted per symbol, every *)
(* order has a positive integer quantity, and no order is submitted for a   *)
(* symbol whose price series is empty, whose ATR is NaN or <= 0, or whose   *)
(* last price is <= 0.                                                      *)
C13_OneValidOrderPerSymbol ==
    Cycle =>
        \A j \in DOMAIN last.orders :
            LET o == last.orders[j]
                d == sym[o.symbol]
            IN  /\ o.quantity \in Nat /\ o.quantity > 0
                /\ get_historical_prices(d) = "bars"
                /\ ~IsNaN(d.atr) /\ ~Le(d.atr, F(0))
                /\ ~Le(d.price, F(0))
                /\ \A k \in DOMAIN last.orders : last.orders[k].symbol = o.symbol => k = j

\* a cycle with a buy for one symbol and a full exit for the other, while
\* the cases without an order are one move away
C13_Witness ==
    /\ Cycle
    /\ Len(last.orders) = 2
    /\ last.orders[1].side # last.orders[2].side
    /\ last.orders[1].symbol # last.orders[2].symbol

----------------------------------------------------------------------------
(* The drawdown gate over a run of cycles: the equity falls and recovers    *)
(* between cycles, and halted_once remembers that a cycle was halted.       *)

GateEquities == {7, 8, 10, 12}

GateCycle ==
    \E r \in on_trading_iteration(
                 Start(universe, risk_per_trade, market_condition, portfolio_peak),
                 portfolio_value, cash, spy, sym) :
        /\ CommitFields("on_trading_iteration", r)
        /\ halted_once' = (halted_once \/ r.outcome = "halted")
        /\ UNCHANGED <<envVars, probe, simple>>

GateEquityMoves ==
    /\ \E pv \in GateEquities : portfolio_value' = pv
    /\ last' = NoRun
    /\ UNCHANGED <<botVars, cash, spy, sym, probe, simple, halted_once>>

GateSymbolMoves ==
    /\ \E stock \in AllSymbols :
           sym' = [sym EXCEPT ![stock] = [BaseSym EXCEPT !.qty = 4 - sym[stock].qty]]
    /\ last' = NoRun
    /\ UNCHANGED <<botVars, portfolio_value, cash, spy, probe, simple, halted_once>>

NextGate ==
    \/ GateCycle
    \/ GateEquityMoves
    \/ BenchmarkMoves
    \/ GateSymbolMoves

SpecGate == Init /\ [][NextGate]_vars

\* the drawdown of this cycle: its equity against the running peak
DrawdownPct ==
    LET peak == Max(last.before.portfolio_peak, portfolio_value)
    IN  NpDiv((portfolio_value - peak) * 100, peak)

(* C14: the drawdown guard has no memory: a cycle that reaches the gate is  *)
(* halted if and only if its own drawdownPct (its equity against the        *)
(* running peak) is < -20, whether or not earlier cycles were halted; a     *)
(* cycle after halted cycles whose drawdownPct is >= -20 goes on to ranking *)
(* and decision.                                                            *)
C14_GateHasNoMemory ==
    (Cycle /\ InSteps("drawdown")) =>
        /\ (last.outcome = "halted") <=> Lt(DrawdownPct, F(-20))
        /\ Le(F(-20), DrawdownPct) =>
               /\ InSteps("rank") /\ InSteps("allocate")
               /\ last.outcome = "allocated"

\* a cycle at exactly -20 percent (equity 8 under a peak of 10) that goes on
\* to buy, after an earlier cycle was halted
C14_Witness ==
    /\ Cycle
    /\ halted_once
    /\ last.before.portfolio_peak = 10 /\ portfolio_value = 8
    /\ last.outcome = "allocated"
    /\ last.orders # <<>>

----------------------------------------------------------------------------
(* Two copies of SMAMomentumBot run side by side on the same inputs.  The   *)
(* first copy is the bot of the other specifications; what the second copy  *)
(* did in the cycle and the fields it ended with are kept in probe.  Both   *)
(* enter a cycle with the same fields as long as C15 holds.  The equity is  *)
(* positive: one number, of one type, is given to both copies.              *)

TwinCycle ==
    \E r1, r2 \in on_trading_iteration(
                      Start(universe, risk_per_trade, market_condition, portfolio_peak),
                      portfolio_value, cash, spy, sym) :
        /\ CommitFields("on_trading_iteration", r1)
        /\ probe' = [fn |-> "on_trading_iteration",
                     run |-> Ran("on_trading_iteration", r2,
                                 Fields(universe, risk_per_trade, market_condition,
                                        portfolio_peak)),
                     fields |-> Fields(r2.m.universe, r2.m.risk_per_trade,
                                       r2.m.market_condition, r2.m.portfolio_peak)]
        /\ UNCHANGED <<envVars, simple, halted_once>>

\* the inputs of the next cycle, the same for both copies
TwinEquityMoves ==
    /\ \E pv \in GateEquities : portfolio_value' = pv
    /\ last' = NoRun /\ probe' = NoProbe
    /\ UNCHANGED <<botVars, cash, spy, sym, simple, halted_once>>

TwinBenchmarkMoves ==
    /\ \E s \in SpyCases : spy' = s
    /\ last' = NoRun /\ probe' = NoProbe
    /\ UNCHANGED <<botVars, portfolio_value, cash, sym, simple, halted_once>>

TwinSymbolMoves ==
    /\ \E stock \in AllSymbols, c \in SymCases : sym' = [sym EXCEPT ![stock] = c]
    /\ last' = NoRun /\ probe' = NoProbe
    /\ UNCHANGED <<botVars, portfolio_value, cash, spy, simple, halted_once>>

NextTwin ==
    \/ TwinCycle
    \/ TwinEquityMoves
    \/ TwinBenchmarkMoves
    \/ TwinSymbolMoves

SpecTwin == Init /\ [][NextTwin]_vars

\* the place of a symbol in the universe the cycle started with
UniversePos(stock) ==
    CHOOSE i \in DOMAIN last.before.universe : last.before.universe[i] = stock

C16_RiskRecomputed ==
    /\ (Cycle /\ last.outcome # "crashed") =>
           risk_per_trade = IF detect_high_volatility(spy) = "TRUE"
                            THEN (base_risk_per_trade * 5) \div 10
                            ELSE base_risk_per_trade
    /\ risk_per_trade \in {(base_risk_per_trade * m) \div 10 : m \in {5, 10, 50}}

\* a completed cycle that started with the risk fraction the session-open
\* hook left in a Bull market (5 x base) and ended with the base
C16_Witness ==
    /\ Cycle /\ last.outcome = "allocated"
    /\ last.before.risk_per_trade = base_risk_per_trade * 5
    /\ market_condition = "Bull"
    /\ risk_per_trade = base_risk_per_trade

----------------------------------------------------------------------------
UniverseSet(u) == {u[i] : i \in DOMAIN u}

(* C17: the universe of SMAMomentumBot only shrinks: no step adds a symbol  *)
(* to it, so a symbol filter_universe dropped is never ranked or traded in  *)
(* a later cycle, also when its data is available again; every symbol a     *)
(* cycle ranks or trades is in the universe the cycle leaves; and a cycle   *)
(* that starts with an empty universe returns without any order.            *)
C17_UniverseOnlyShrinks ==
    /\ [][UniverseSet(universe') \subseteq UniverseSet(universe)]_vars
    /\ [](Cycle =>
             /\ UniverseSet(last.ranked_assets) \subseteq UniverseSet(universe)
             /\ \A j \in DOMAIN last.orders :
                    last.orders[j].symbol \in UniverseSet(universe)
             /\ last.before.universe = <<>> =>
                    /\ last.orders = <<>>
                    /\ last.outcome \in {"no_universe", "crashed"}
                    /\ universe = <<>>)

\* VOO was dropped; its bars are back and it is held in a downtrend, but the
\* cycle ranks and trades QQQ alone
C17_Witness ==
    /\ Cycle /\ last.outcome = "allocated"
    /\ universe = <<"QQQ">>
    /\ last.before.universe = <<"QQQ">>
    /\ get_valid_data(sym["VOO"]) = "df"
    /\ sym["VOO"].qty > 0 /\ CrossDown(sym["VOO"])
    /\ last.ranked_assets = <<"QQQ">>
    /\ last.orders # <<>>

----------------------------------------------------------------------------
\* the last handler run was a trading cycle of SimpleMomentumBot
SimpleCycle == last.handler = "on_trading_iteration" /\ "strategy_ran" \in DOMAIN last

(* C18: SimpleMomentumBot submits orders only in cycles whose market        *)
(* condition is Bullish: in a cycle classified Bearish or Neutral (also the *)
(* Neutral of a data failure) regular_momentum_strategy does not run and no *)
(* buy and no sell order is submitted, so a held position is not closed     *)
(* whatever its averages.                                                   *)
C18_OrdersOnlyWhenBullish ==
    SimpleCycle =>
        /\ last.market_condition = determine_market_condition(spy)
        /\ last.market_condition \in {"Bullish", "Bearish", "Neutral"}
        /\ last.market_condition # "Bullish" =>
               /\ last.orders = <<>>
               /\ ~last.strategy_ran
               /\ simple.day_trades_count = last.before.day_trades_count
        /\ get_historical_prices(spy) # "bars" => last.market_condition = "Neutral"

\* a Neutral cycle of a failed benchmark fetch, not halted by the drawdown,
\* with a held symbol in a downtrend that a Bullish cycle would sell
C18_Witness ==
    /\ SimpleCycle
    /\ spy.hist = "raise"
    /\ last.market_condition = "Neutral"
    /\ last.outcome = "holding"
    /\ last.orders = <<>>
    /\ \E stock \in SimpleSymbols :
           LET d == sym[stock]
           IN  /\ d.qty > 0 /\ Lt(RollingMean(d, 10), RollingMean(d, 30))
               /\ get_historical_prices(d) = "bars"
               /\ ValidATR(d) /\ ValidPrice(d)

====
